---- MODULE Spec2Model ----
(***************************************************************************)
(* Hummock compaction status: src/meta/src/hummock/compaction/mod.rs.      *)
(*                                                                         *)
(* CompactStatus owns one LevelHandler per level and the task-id counter.  *)
(* get_compact_task asks the TierCompactionPicker for a SearchResult,      *)
(* report_compact_task releases a task's reservations, and                 *)
(* apply_compact_result derives a new HummockVersion from a finished task. *)
(*                                                                         *)
(* KeyRange, RangeOverlapStrategy, LevelHandler and TierCompactionPicker   *)
(* are used by mod.rs and defined in other modules; they are modelled from *)
(* the design document (sections 3, 4.1, 4.2, 4.3).                        *)
(* Rust indexes levels from 0; sequences here are indexed from 1, so       *)
(* levels[i] of the code is levels[i + 1] here.                            *)
(***************************************************************************)
EXTENDS Integers, Sequences, FiniteSets, TLC

\* ---------------------------------------------------------------- bounds
\* A flushed SST covers two keys, starting at one of 0..MaxKey; a key range
\* is closed-open [left, right).
MaxKey == 2
\* At most MaxWork SSTs are flushed and tasks handed out, taken together.
MaxWork == 4
\* Watermarks set on tasks are 0..MaxEpoch (or HummockEpoch::MAX).
MaxEpoch == 0
\* Tables that level 0 may hold when apply_compact_result is checked as a
\* function of its two arguments.
MaxL0 == 3

\* HummockEpoch::MAX (u64::MAX): above every epoch of the model.
HummockEpochMAX == MaxEpoch + 1

None == "None"
Some == "Some"

\* ------------------------------------------------------------- KeyRange
KeyRange_of(l) == [left |-> l, right |-> l + 2]

KeyRanges == {KeyRange_of(l) : l \in 0..MaxKey}

\* Closed-open byte intervals compared lexicographically.
overlaps(a, b) == a.left < b.right /\ b.left < a.right

\* Total order: by left bound, then right bound.  -1 / 0 / 1 as Ordering.
KeyRange_cmp(a, b) ==
    IF a.left < b.left THEN -1
    ELSE IF a.left > b.left THEN 1
    ELSE IF a.right < b.right THEN -1
    ELSE IF a.right > b.right THEN 1
    ELSE 0

\* find_overlap: every table of the candidates whose range intersects target.
find_overlap(target, candidates) ==
    SelectSeq(candidates, LAMBDA t : overlaps(target, t.key_range))

\* --------------------------------------------------------- LevelHandler
LevelHandler_new(level_idx) ==
    [level_idx |-> level_idx, reserved |-> [t \in {} |-> {}]]

add_task(h, task_id, tables) ==
    [h EXCEPT !.reserved =
        [t \in (DOMAIN h.reserved) \cup {task_id} |->
            IF t = task_id
            THEN (IF t \in DOMAIN h.reserved THEN h.reserved[t] ELSE {}) \cup tables
            ELSE h.reserved[t]]]

is_pending(h, table_id) ==
    \E t \in DOMAIN h.reserved : table_id \in h.reserved[t]

remove_task(h, task_id) ==
    [h EXCEPT !.reserved =
        [t \in (DOMAIN h.reserved) \ {task_id} |-> h.reserved[t]]]

\* ------------------------------------------------- TierCompactionPicker
SeqToSet(s) == {s[i] : i \in DOMAIN s}

MinOf(S) == CHOOSE x \in S : \A y \in S : x <= y
MaxOf(S) == CHOOSE x \in S : \A y \in S : x >= y

\* The smallest key range covering every table of a non-empty set.
Hull(tables) ==
    [left  |-> MinOf({t.key_range.left : t \in tables}),
     right |-> MaxOf({t.key_range.right : t \in tables})]

\* Connected component of grp among cands under the overlap relation.
RECURSIVE OverlapClosure(_, _)
OverlapClosure(grp, cands) ==
    LET more == {c \in cands \ grp :
                    \E g \in grp : overlaps(g.key_range, c.key_range)}
    IN  IF more = {} THEN grp ELSE OverlapClosure(grp \cup more, cands)

\* Tie-break: the largest group, then the one holding the lowest table id.
PreferredGroup(groups) ==
    CHOOSE g \in groups : \A o \in groups :
        \/ Cardinality(g) > Cardinality(o)
        \/ /\ Cardinality(g) = Cardinality(o)
           /\ MinOf({t.id : t \in g}) <= MinOf({t.id : t \in o})

\* picker.pick_compaction(levels, &mut level_handlers): the SearchResult (or
\* None) together with the level handlers as the picker leaves them.
TierCompactionPicker_pick_compaction(compact_task_id, levels, level_handlers) ==
    LET l0    == levels[1].table_infos
        \* 1. exclude the L0 tables already pending in the L0 handler
        cands == {t \in SeqToSet(l0) : ~is_pending(level_handlers[1], t.id)}
    IN  IF cands = {}
        THEN [ret |-> None, level_handlers |-> level_handlers]
        ELSE
        LET \* 2. group by mutual overlap, pick one group
            groups == {OverlapClosure({t}, cands) : t \in cands}
            best   == PreferredGroup(groups)
            select == SelectSeq(l0, LAMBDA t : t \in best)
            \* 3. target is L1 unless an overlapping L1 table is reserved
            base   == find_overlap(Hull(best), levels[2].table_infos)
            toL1   == \A i \in DOMAIN base : ~is_pending(level_handlers[2], base[i].id)
            target == IF toL1
                      THEN [level_idx |-> 1, table_infos |-> base]
                      ELSE [level_idx |-> 0, table_infos |-> <<>>]
            \* 5. reserve every selected input table under the task id
            h0     == add_task(level_handlers[1], compact_task_id,
                               {t.id : t \in best})
            h1     == IF toL1 /\ base # <<>>
                      THEN add_task(level_handlers[2], compact_task_id,
                                    {base[i].id : i \in DOMAIN base})
                      ELSE level_handlers[2]
        IN  [ret            |-> Some,
             select_level   |-> [level_idx |-> 0, table_infos |-> select],
             target_level   |-> target,
             \* 4. split ranges cover exactly the selected input range
             split_ranges   |-> <<Hull(best)>>,
             level_handlers |-> <<h0, h1>>]

\* -------------------------------------------------------- CompactStatus
VARIABLES
    level_handlers,         \* CompactStatus.level_handlers
    next_compact_task_id,   \* CompactStatus.next_compact_task_id
    version,                \* the current HummockVersion (levels, safe_epoch)
    tasks,                  \* tasks handed out, in call order, with their phase
    next_sst_id,            \* id of the next SST a flush or a worker creates
    flushed,                \* number of SSTs flushed to level 0 so far
    last,                   \* the last call: its operation, its result (for a
                            \* report: first, redelivered or stray), task id
                            \* and, for an apply, the watermark of the task
    store,                  \* the meta store: what it holds under key()
    durable,                \* the tasks (positions in tasks) whose pick was
                            \* persisted
    held,                   \* those of them that were in flight when the status
                            \* was last persisted
    restart_len,            \* Len(tasks) when the status was last loaded
    pinned                  \* the published versions that readers hold

\* What only the persistence of the status, and the readers of versions,
\* change.
pvars == <<store, durable, held, restart_len, pinned>>

vars == <<level_handlers, next_compact_task_id, version, tasks, next_sst_id,
          flushed, last, pvars>>

CompactStatus_new ==
    [level_handlers       |-> <<LevelHandler_new(0), LevelHandler_new(1)>>,
     next_compact_task_id |-> 1]

\* Faulty variant: the picker works on a copy of the handlers, so the reservations
\* it makes are not kept in the status.
pick_compaction_on_copy(status, levels) ==
    [TierCompactionPicker_pick_compaction(status.next_compact_task_id, levels,
                                          status.level_handlers)
        EXCEPT !.level_handlers = status.level_handlers]

\* Faulty variant: the picker is given the id after the next one.
pick_compaction_id_ahead(status, levels) ==
    TierCompactionPicker_pick_compaction(status.next_compact_task_id + 1, levels,
                                         status.level_handlers)

pick_compaction(status, levels) ==
    TierCompactionPicker_pick_compaction(status.next_compact_task_id, levels,
                                         status.level_handlers)

\* Faulty variant: the flag does not look at the select level.
NewCompactTask_ignores_select_level(status, ret, task_id) ==
    LET target_level_id == ret.target_level.level_idx
    IN  [input_ssts         |-> <<ret.select_level, ret.target_level>>,
         splits             |-> ret.split_ranges,
         watermark          |-> HummockEpochMAX,
         sorted_output_ssts |-> <<>>,
         task_id            |-> task_id,
         target_level       |-> target_level_id,
         is_target_ultimate_and_leveling |->
             (target_level_id = Len(status.level_handlers) - 1),
         task_status        |-> FALSE]

\* Faulty variant: the target level comes first in input_ssts.
NewCompactTask_target_first(status, ret, task_id) ==
    LET select_level_id == ret.select_level.level_idx
        target_level_id == ret.target_level.level_idx
    IN  [input_ssts         |-> <<ret.target_level, ret.select_level>>,
         splits             |-> ret.split_ranges,
         watermark          |-> HummockEpochMAX,
         sorted_output_ssts |-> <<>>,
         task_id            |-> task_id,
         target_level       |-> target_level_id,
         is_target_ultimate_and_leveling |->
             (target_level_id = Len(status.level_handlers) - 1
              /\ select_level_id > 0),
         task_status        |-> FALSE]

\* The CompactTask literal of get_compact_task, for SearchResult ret.
NewCompactTask(status, ret, task_id) ==
    LET select_level_id == ret.select_level.level_idx
        target_level_id == ret.target_level.level_idx
    IN  [input_ssts         |-> <<ret.select_level, ret.target_level>>,
         splits             |-> ret.split_ranges,
         watermark          |-> HummockEpochMAX,
         sorted_output_ssts |-> <<>>,
         task_id            |-> task_id,
         target_level       |-> target_level_id,
         is_target_ultimate_and_leveling |->
             (target_level_id = Len(status.level_handlers) - 1
              /\ select_level_id > 0),
         task_status        |-> FALSE]

\* Faulty variant: next_compact_task_id is not incremented.
get_compact_task_no_increment(status, levels) ==
    LET ret    == pick_compaction(status, levels)
        picked == [status EXCEPT !.level_handlers = ret.level_handlers]
    IN  IF ret.ret = None
        THEN [status |-> picked, ret |-> None]
        ELSE [status |-> picked,
              ret    |-> Some,
              task   |-> NewCompactTask(status, ret, status.next_compact_task_id)]

\* Faulty variant: the task id is read after the increment.
get_compact_task_id_after_increment(status, levels) ==
    LET ret    == pick_compaction(status, levels)
        picked == [status EXCEPT !.level_handlers = ret.level_handlers]
    IN  IF ret.ret = None
        THEN [status |-> picked, ret |-> None]
        ELSE [status |-> [picked EXCEPT !.next_compact_task_id = @ + 1],
              ret    |-> Some,
              task   |-> NewCompactTask(status, ret, status.next_compact_task_id + 1)]

\* Faulty variant: the counter is incremented before the picker's result is looked at.
get_compact_task_counts_calls(status, levels) ==
    LET ret    == pick_compaction(status, levels)
        picked == [status EXCEPT !.level_handlers = ret.level_handlers,
                                 !.next_compact_task_id = @ + 1]
    IN  IF ret.ret = None
        THEN [status |-> picked, ret |-> None]
        ELSE [status |-> picked,
              ret    |-> Some,
              task   |-> NewCompactTask(status, ret, status.next_compact_task_id)]

\* Faulty variant: a None of the picker is replaced by an empty SearchResult.
get_compact_task_unwrap_or_default(status, levels) ==
    LET ret    == pick_compaction(status, levels)
        picked == [status EXCEPT !.level_handlers = ret.level_handlers]
        found  == IF ret.ret = None
                  THEN [ret |-> Some,
                        select_level |-> [level_idx |-> 0, table_infos |-> <<>>],
                        target_level |-> [level_idx |-> 0, table_infos |-> <<>>],
                        split_ranges |-> <<>>]
                  ELSE ret
    IN  [status |-> [picked EXCEPT !.next_compact_task_id = @ + 1],
         ret    |-> Some,
         task   |-> NewCompactTask(status, found, status.next_compact_task_id)]

\* Returns the status after the call and the task (ret = None: no task).
\* Faulty variant: the task takes the whole level 0, not the selected tables.
get_compact_task_whole_level(status, levels) ==
    LET ret    == pick_compaction(status, levels)
        picked == [status EXCEPT !.level_handlers = ret.level_handlers]
    IN  IF ret.ret = None
        THEN [status |-> picked, ret |-> None]
        ELSE [status |-> [picked EXCEPT !.next_compact_task_id = @ + 1],
              ret    |-> Some,
              task   |-> NewCompactTask(status,
                                        [ret EXCEPT !.select_level = levels[1]],
                                        status.next_compact_task_id)]

get_compact_task(status, levels) ==
    LET ret    == pick_compaction(status, levels)
        picked == [status EXCEPT !.level_handlers = ret.level_handlers]
    IN  IF ret.ret = None
        THEN [status |-> picked, ret |-> None]
        ELSE [status |-> [picked EXCEPT !.next_compact_task_id = @ + 1],
              ret    |-> Some,
              task   |-> NewCompactTask(status, ret, status.next_compact_task_id)]

\* for level in input_ssts: level_handlers[level.level_idx].remove_task(id)
RECURSIVE ReleaseLevels(_, _, _)
ReleaseLevels(handlers, input_ssts, task_id) ==
    IF input_ssts = <<>> THEN handlers
    ELSE LET idx == Head(input_ssts).level_idx + 1
         IN  ReleaseLevels(
                 [handlers EXCEPT ![idx] = remove_task(handlers[idx], task_id)],
                 Tail(input_ssts), task_id)

\* Faulty variant: only the first input level's handler is released.
report_compact_task_first_level(status, compact_task) ==
    [status EXCEPT !.level_handlers =
        ReleaseLevels(status.level_handlers,
                      SubSeq(compact_task.input_ssts, 1, 1),
                      compact_task.task_id)]

\* Faulty variant: the reservations are released by table id: every task holding an
\* input table of the reported task loses its reservations in that level.
RECURSIVE ReleaseHolders(_, _)
ReleaseHolders(handlers, input_ssts) ==
    IF input_ssts = <<>> THEN handlers
    ELSE LET idx     == Head(input_ssts).level_idx + 1
             ids     == {t.id : t \in SeqToSet(Head(input_ssts).table_infos)}
             h       == handlers[idx]
             holders == {t \in DOMAIN h.reserved : h.reserved[t] \cap ids # {}}
         IN  ReleaseHolders(
                 [handlers EXCEPT ![idx].reserved =
                     [t \in (DOMAIN h.reserved) \ holders |-> h.reserved[t]]],
                 Tail(input_ssts))

report_compact_task_by_table(status, compact_task) ==
    [status EXCEPT !.level_handlers =
        ReleaseHolders(status.level_handlers, compact_task.input_ssts)]

\* Faulty variant: only the report of a finished task releases reservations.
report_compact_task_only_finished(status, compact_task) ==
    IF compact_task.task_status
    THEN [status EXCEPT !.level_handlers =
             ReleaseLevels(status.level_handlers, compact_task.input_ssts,
                           compact_task.task_id)]
    ELSE status

report_compact_task(status, compact_task) ==
    [status EXCEPT !.level_handlers =
        ReleaseLevels(status.level_handlers, compact_task.input_ssts,
                      compact_task.task_id)]

\* L0 branch: keep the tables that are not inputs, and splice the outputs in
\* once, where the first input table stood (find_remove_position).
RECURSIVE SpliceL0(_, _, _, _)
SpliceL0(table_infos, stale_ids, outputs, find_remove_position) ==
    IF table_infos = <<>> THEN <<>>
    ELSE LET table == Head(table_infos)
             rest  == Tail(table_infos)
         IN  IF table.id \notin stale_ids
             THEN <<table>> \o SpliceL0(rest, stale_ids, outputs, find_remove_position)
             ELSE IF ~find_remove_position
             THEN outputs \o SpliceL0(rest, stale_ids, outputs, TRUE)
             ELSE SpliceL0(rest, stale_ids, outputs, find_remove_position)

\* Faulty variant: the retain predicate is inverted.
retain_matching(table_infos, input_level) ==
    SelectSeq(table_infos,
              LAMBDA sst : \E stale \in SeqToSet(input_level.table_infos) :
                              sst.id = stale.id)

\* table_infos.retain(|sst| input_level.table_infos.iter().all(|stale| sst.id != stale.id))
retain(table_infos, input_level) ==
    SelectSeq(table_infos,
              LAMBDA sst : \A i \in DOMAIN input_level.table_infos :
                              sst.id # input_level.table_infos[i].id)

\* sort_by(KeyRange::cmp): a stable sort.
RECURSIVE InsertByKeyRange(_, _)
InsertByKeyRange(sorted, sst) ==
    IF sorted = <<>> THEN <<sst>>
    ELSE IF KeyRange_cmp(Head(sorted).key_range, sst.key_range) <= 0
         THEN <<Head(sorted)>> \o InsertByKeyRange(Tail(sorted), sst)
         ELSE <<sst>> \o sorted

RECURSIVE sort_by_key_range(_)
sort_by_key_range(table_infos) ==
    IF table_infos = <<>> THEN <<>>
    ELSE InsertByKeyRange(
             sort_by_key_range(SubSeq(table_infos, 1, Len(table_infos) - 1)),
             table_infos[Len(table_infos)])

Max(a, b) == IF a >= b THEN a ELSE b

\* assert_eq!(compact_task.input_ssts[0].level_idx, 0) of the L0 branch.
ApplyAssertion(compact_task) ==
    compact_task.target_level = 0 => compact_task.input_ssts[1].level_idx = 0

\* The levels of the new version: the L0 branch splices the outputs in at the
\* first removed input, the other branch retains, extends and sorts.
apply_levels(compact_task, levels) ==
    LET target == compact_task.target_level + 1
    IN  IF compact_task.target_level = 0
        THEN
        LET stale == {compact_task.input_ssts[1].table_infos[i].id :
                         i \in DOMAIN compact_task.input_ssts[1].table_infos}
            new_table_infos ==
                SpliceL0(levels[1].table_infos, stale,
                         compact_task.sorted_output_ssts, FALSE)
        IN  [levels EXCEPT ![target].table_infos = new_table_infos]
        ELSE
        LET retained ==
                [idx \in DOMAIN levels |->
                    IF idx \in DOMAIN compact_task.input_ssts
                    THEN [levels[idx] EXCEPT !.table_infos =
                             retain(@, compact_task.input_ssts[idx])]
                    ELSE levels[idx]]
        IN  [retained EXCEPT ![target].table_infos =
                sort_by_key_range(@ \o compact_task.sorted_output_ssts)]

\* Faulty variant: safe_epoch is overwritten with the watermark of the task.
apply_compact_result_overwrites_epoch(compact_task, based_hummock_version) ==
    [safe_epoch |-> compact_task.watermark,
     levels     |-> apply_levels(compact_task, based_hummock_version.levels)]

apply_compact_result(compact_task, based_hummock_version) ==
    [safe_epoch |-> Max(based_hummock_version.safe_epoch, compact_task.watermark),
     levels     |-> apply_levels(compact_task, based_hummock_version.levels)]

\* ---------------------------------------------------------- persistence
\* The ids of a set in increasing order.
RECURSIVE SortedSeq(_)
SortedSeq(S) ==
    IF S = {} THEN <<>> ELSE <<MinOf(S)>> \o SortedSeq(S \ {MinOf(S)})

\* risingwave_pb::hummock::LevelHandler: the level and, per task, the ids of
\* the tables it holds.
LevelHandler_to_pb(h) ==
    [level |-> h.level_idx,
     tasks |-> [k \in 1..Cardinality(DOMAIN h.reserved) |->
                  [task_id |-> SortedSeq(DOMAIN h.reserved)[k],
                   ssts    |-> SortedSeq(h.reserved[SortedSeq(DOMAIN h.reserved)[k]])]]]

LevelHandler_from_pb(p) ==
    [level_idx |-> p.level,
     reserved  |-> [t \in {p.tasks[k].task_id : k \in DOMAIN p.tasks} |->
                      UNION {SeqToSet(p.tasks[k].ssts) :
                                k \in {j \in DOMAIN p.tasks : p.tasks[j].task_id = t}}]]

\* Faulty variant: next_compact_task_id is left out of the message.
CompactStatus_to_pb_without_counter(status) ==
    [level_handlers       |-> [i \in DOMAIN status.level_handlers |->
                                 LevelHandler_to_pb(status.level_handlers[i])],
     next_compact_task_id |-> 0]

\* From<&CompactStatus> for risingwave_pb::hummock::CompactStatus
CompactStatus_to_pb(status) ==
    [level_handlers       |-> [i \in DOMAIN status.level_handlers |->
                                 LevelHandler_to_pb(status.level_handlers[i])],
     next_compact_task_id |-> status.next_compact_task_id]

\* Faulty variant: the level handlers are built anew, not from the message.
CompactStatus_from_pb_new_handlers(pb) ==
    [level_handlers       |-> CompactStatus_new.level_handlers,
     next_compact_task_id |-> pb.next_compact_task_id]

\* From<&risingwave_pb::hummock::CompactStatus> for CompactStatus
CompactStatus_from_pb(pb) ==
    [level_handlers       |-> [i \in DOMAIN pb.level_handlers |->
                                 LevelHandler_from_pb(pb.level_handlers[i])],
     next_compact_task_id |-> pb.next_compact_task_id]

\* The wire form of a message: its fields as <<number, value>>, in order; a
\* scalar field holding the default 0 is left out, and decoding starts from
\* the defaults.  A field number 0 is not valid: decoding fails on it.
LevelHandler_encode(p) ==
    (IF p.level # 0 THEN <<<<1, p.level>>>> ELSE <<>>)
    \o [k \in DOMAIN p.tasks |-> <<2, p.tasks[k]>>]

encode_to_vec(pb) ==
    [i \in DOMAIN pb.level_handlers |->
        <<1, LevelHandler_encode(pb.level_handlers[i])>>]
    \o (IF pb.next_compact_task_id # 0
        THEN <<<<2, pb.next_compact_task_id>>>> ELSE <<>>)

FieldsOf(bytes, number) == SelectSeq(bytes, LAMBDA f : f[1] = number)

ScalarOf(bytes, number) ==
    IF FieldsOf(bytes, number) = <<>> THEN 0
    ELSE FieldsOf(bytes, number)[Len(FieldsOf(bytes, number))][2]

LevelHandler_decode(bytes) ==
    [level |-> ScalarOf(bytes, 1),
     tasks |-> [k \in DOMAIN FieldsOf(bytes, 2) |-> FieldsOf(bytes, 2)[k][2]]]

decode(bytes) ==
    IF \E i \in DOMAIN bytes : bytes[i][1] = 0
    THEN [ok |-> FALSE]
    ELSE [ok |-> TRUE,
          pb |-> [level_handlers       |->
                      [k \in DOMAIN FieldsOf(bytes, 1) |->
                          LevelHandler_decode(FieldsOf(bytes, 1)[k][2])],
                  next_compact_task_id |-> ScalarOf(bytes, 2)]]

\* The meta store holds no record, or the bytes last put under key().
NoRecord == [present |-> FALSE, bytes |-> <<>>]

\* A record that does not decode.
Garbage == <<<<0, 0>>>>

\* MetaStore::get_cf: the bytes, ItemNotFound, or another storage error.
get_cf(content, fault) ==
    IF fault THEN [ok |-> FALSE, err |-> "Internal"]
    ELSE IF ~content.present THEN [ok |-> FALSE, err |-> "ItemNotFound"]
    ELSE [ok |-> TRUE, v |-> content.bytes]

\* upsert_in_transaction, committed: the encoded status is put under key().
upsert_in_transaction(status) ==
    [present |-> TRUE, bytes |-> encode_to_vec(CompactStatus_to_pb(status))]

\* Faulty variant: a record that does not decode is replaced by the default.
CompactStatus_get_unwrap_or_default(content, fault) ==
    LET r == get_cf(content, fault)
    IN  IF r.ok
        THEN [ret    |-> Some,
              status |-> IF decode(r.v).ok
                         THEN CompactStatus_from_pb(decode(r.v).pb)
                         ELSE CompactStatus_new]
        ELSE IF r.err # "ItemNotFound" THEN [ret |-> "Err"] ELSE [ret |-> None]

\* Faulty variant: every storage error is taken for a missing record.
CompactStatus_get_ignores_errors(content, fault) ==
    LET r == get_cf(content, fault)
    IN  IF r.ok
        THEN IF decode(r.v).ok
             THEN [ret |-> Some, status |-> CompactStatus_from_pb(decode(r.v).pb)]
             ELSE [ret |-> "panic"]
        ELSE [ret |-> None]

\* CompactStatus::get: Ok(Some(status)), Ok(None), Err(err), or the panic of
\* the unwrap() on a record that does not decode.
CompactStatus_get(content, fault) ==
    LET r == get_cf(content, fault)
    IN  IF r.ok
        THEN IF decode(r.v).ok
             THEN [ret |-> Some, status |-> CompactStatus_from_pb(decode(r.v).pb)]
             ELSE [ret |-> "panic"]
        ELSE IF r.err # "ItemNotFound" THEN [ret |-> "Err"] ELSE [ret |-> None]

\* No CompactStatus is in memory: the load failed.
NoStatus == [level_handlers |-> <<>>, next_compact_task_id |-> 0]

\* ------------------------------------------------------------ behaviour
Status == [level_handlers       |-> level_handlers,
           next_compact_task_id |-> next_compact_task_id]

\* The version the status starts with: level 0 is empty, level 1 is empty or
\* holds one SST (a sorted run of non-overlapping tables).
InitialVersions ==
    {[safe_epoch |-> 0,
      levels     |-> <<[level_idx |-> 0, table_infos |-> <<>>],
                       [level_idx |-> 1, table_infos |-> l1]>>] :
        l1 \in {<<>>, <<[id |-> 1, key_range |-> [left |-> 0, right |-> MaxKey + 2]]>>}}

\* SSTs flushed plus tasks handed out so far.
WorkDone == flushed + Len(tasks)

Init ==
    /\ level_handlers = CompactStatus_new.level_handlers
    /\ next_compact_task_id = CompactStatus_new.next_compact_task_id
    /\ version \in InitialVersions
    /\ tasks = <<>>
    /\ next_sst_id = Len(version.levels[2].table_infos) + 1
    /\ flushed = 0
    /\ last = [op |-> "new", ret |-> None, task_id |-> 0]
    /\ store = NoRecord
    /\ durable = {}
    /\ held = {}
    /\ restart_len = 0
    /\ pinned = {}

\* A flush of the storage layer adds a new SST to level 0 of the version.
Flush(key_range) ==
    /\ WorkDone < MaxWork
    /\ version' = [version EXCEPT !.levels[1].table_infos =
                      Append(@, [id |-> next_sst_id, key_range |-> key_range])]
    /\ next_sst_id' = next_sst_id + 1
    /\ flushed' = flushed + 1
    /\ last' = [op |-> "flush", ret |-> None, task_id |-> 0]
    /\ UNCHANGED <<level_handlers, next_compact_task_id, tasks, pvars>>

\* The work-distribution layer asks for a task on the current levels.
GetCompactTask ==
    /\ WorkDone < MaxWork
    /\ LET r == get_compact_task(Status, version.levels)
       IN  /\ level_handlers' = r.status.level_handlers
           /\ next_compact_task_id' = r.status.next_compact_task_id
           /\ IF r.ret = None
              THEN /\ tasks' = tasks
                   /\ last' = [op |-> "get", ret |-> None, task_id |-> 0]
              ELSE /\ tasks' = Append(tasks, [task |-> r.task, phase |-> "picked"])
                   /\ last' = [op |-> "get", ret |-> Some,
                               task_id |-> r.task.task_id]
    /\ UNCHANGED <<version, next_sst_id, flushed, pvars>>

InputTables(compact_task) ==
    UNION {SeqToSet(compact_task.input_ssts[i].table_infos) :
              i \in DOMAIN compact_task.input_ssts}

InputIds(compact_task) == {t.id : t \in InputTables(compact_task)}

\* The worker merges the inputs into one SST covering their key ranges.
WorkerOutput(compact_task) ==
    <<[id |-> next_sst_id, key_range |-> Hull(InputTables(compact_task))]>>

Watermarks == (0..MaxEpoch) \cup {HummockEpochMAX}

\* The worker finished task i: the layer reports it with its outputs.
ReportSuccess(i) ==
    /\ tasks[i].phase = "picked"
    /\ LET done == [tasks[i].task EXCEPT
                       !.sorted_output_ssts = WorkerOutput(tasks[i].task),
                       !.task_status = TRUE]
       IN  /\ level_handlers' = report_compact_task(Status, done).level_handlers
           /\ next_compact_task_id' =
                  report_compact_task(Status, done).next_compact_task_id
           /\ tasks' = [tasks EXCEPT ![i] = [task |-> done, phase |-> "success"]]
           /\ last' = [op |-> "report", ret |-> "reported",
                       task_id |-> done.task_id]
    /\ next_sst_id' = next_sst_id + 1
    /\ UNCHANGED <<version, flushed, pvars>>

\* Task i failed or was cancelled: it is reported with no output.
ReportCancel(i) ==
    /\ tasks[i].phase = "picked"
    /\ level_handlers' = report_compact_task(Status, tasks[i].task).level_handlers
    /\ next_compact_task_id' =
           report_compact_task(Status, tasks[i].task).next_compact_task_id
    /\ tasks' = [tasks EXCEPT ![i].phase = "cancel"]
    /\ last' = [op |-> "report", ret |-> "reported",
                task_id |-> tasks[i].task.task_id]
    /\ UNCHANGED <<version, next_sst_id, flushed, pvars>>

\* At-least-once delivery: the report of task i arrives once more.
ReportAgain(i) ==
    /\ tasks[i].phase # "picked"
    /\ level_handlers' = report_compact_task(Status, tasks[i].task).level_handlers
    /\ next_compact_task_id' =
           report_compact_task(Status, tasks[i].task).next_compact_task_id
    /\ last' = [op |-> "report", ret |-> "redelivered",
                task_id |-> tasks[i].task.task_id]
    /\ UNCHANGED <<version, tasks, next_sst_id, flushed, pvars>>

\* A task that get_compact_task never returned: nothing is reserved under
\* its id, and its inputs are the tables of the current levels that no task
\* has reserved.
StrayTask ==
    [input_ssts         |->
        [l \in DOMAIN version.levels |->
            [version.levels[l] EXCEPT !.table_infos =
                SelectSeq(@, LAMBDA t : ~is_pending(level_handlers[l], t.id))]],
     splits             |-> <<>>,
     watermark          |-> HummockEpochMAX,
     sorted_output_ssts |-> <<>>,
     task_id            |-> next_compact_task_id,
     target_level       |-> 1,
     is_target_ultimate_and_leveling |-> FALSE,
     task_status        |-> FALSE]

ReportStray ==
    /\ level_handlers' = report_compact_task(Status, StrayTask).level_handlers
    /\ next_compact_task_id' =
           report_compact_task(Status, StrayTask).next_compact_task_id
    /\ last' = [op |-> "report", ret |-> "stray",
                task_id |-> StrayTask.task_id]
    /\ UNCHANGED <<version, tasks, next_sst_id, flushed, pvars>>

\* Faulty variant: the based version is changed in place, under the readers
\* that hold it.
ApplyCompactResult_in_place(i, watermark) ==
    /\ tasks[i].phase = "success"
    /\ ApplyAssertion(tasks[i].task)
    /\ version' = apply_compact_result(
                      [tasks[i].task EXCEPT !.watermark = watermark], version)
    /\ pinned' = {IF v = version THEN version' ELSE v : v \in pinned}
    /\ tasks' = [tasks EXCEPT ![i].phase = "applied"]
    /\ last' = [op |-> "apply", ret |-> None,
                task_id |-> tasks[i].task.task_id, watermark |-> watermark]
    /\ UNCHANGED <<level_handlers, next_compact_task_id, next_sst_id, flushed,
                   store, durable, held, restart_len>>

\* The layer publishes the version derived from a successfully reported task;
\* the watermark of the task is the one the layer set on it (by default
\* HummockEpoch::MAX, as get_compact_task leaves it), recorded with the
\* call.
ApplyCompactResult(i, watermark) ==
    /\ tasks[i].phase = "success"
    /\ ApplyAssertion(tasks[i].task)
    /\ version' = apply_compact_result(
                      [tasks[i].task EXCEPT !.watermark = watermark], version)
    /\ tasks' = [tasks EXCEPT ![i].phase = "applied"]
    /\ last' = [op |-> "apply", ret |-> None,
                task_id |-> tasks[i].task.task_id, watermark |-> watermark]
    /\ UNCHANGED <<level_handlers, next_compact_task_id, next_sst_id, flushed, pvars>>

Next ==
    \/ \E key_range \in KeyRanges : Flush(key_range)
    \/ GetCompactTask
    \/ \E i \in DOMAIN tasks : ReportSuccess(i)
    \/ \E i \in DOMAIN tasks : ReportCancel(i)
    \/ \E i \in DOMAIN tasks : ReportAgain(i)
    \/ ReportStray
    \/ \E i \in DOMAIN tasks : \E watermark \in Watermarks :
          ApplyCompactResult(i, watermark)

Spec == Init /\ [][Next]_vars

\* ------------------------------------------- the status and its store
\* A CompactStatus is in memory.
Loaded == Status # NoStatus

\* The caller persists the status: the transaction with the upsert commits.
Persist ==
    /\ Loaded
    /\ store' = upsert_in_transaction(Status)
    /\ durable' = durable \cup ((restart_len + 1)..Len(tasks))
    /\ held' = {i \in durable' : tasks[i].phase = "picked"}
    /\ last' = [op |-> "persist", ret |-> None, task_id |-> 0]
    /\ UNCHANGED <<level_handlers, next_compact_task_id, version, tasks,
                   next_sst_id, flushed, restart_len, pinned>>

\* The record under key() is damaged.
Corrupt ==
    /\ store.present
    /\ store.bytes # Garbage
    /\ store' = [store EXCEPT !.bytes = Garbage]
    /\ last' = [op |-> "corrupt", ret |-> None, task_id |-> 0]
    /\ UNCHANGED <<level_handlers, next_compact_task_id, version, tasks,
                   next_sst_id, flushed, durable, held, restart_len, pinned>>

\* What the caller of CompactStatus::get has in memory afterwards: the status
\* loaded, a new one when there is no record, none when the load failed.
StatusAfterGet(r) ==
    IF r.ret = Some THEN r.status
    ELSE IF r.ret = None THEN CompactStatus_new
    ELSE NoStatus

\* The process restarts (the status in memory is lost) and loads the status;
\* the operation recorded tells whether the store failed with an error other
\* than ItemNotFound.
Load(fault) ==
    /\ LET r == CompactStatus_get(store, fault)
       IN  /\ level_handlers' = StatusAfterGet(r).level_handlers
           /\ next_compact_task_id' = StatusAfterGet(r).next_compact_task_id
           /\ last' = [op |-> IF fault THEN "load_fault" ELSE "load",
                       ret |-> r.ret, task_id |-> 0]
    /\ restart_len' = Len(tasks)
    /\ UNCHANGED <<version, tasks, next_sst_id, flushed, store, durable, held,
                   pinned>>

\* The status with its persistence.  A task goes to a worker, and is reported,
\* only once the status that holds its pick is persisted.  The report of a
\* finished task acts on the status as the report of a cancelled one does
\* (the outputs matter to versions only, which are persisted on their own),
\* so reports are those of ReportCancel.
NextPersist ==
    \/ \E key_range \in KeyRanges : Flush(key_range)
    \/ Loaded /\ GetCompactTask
    \/ \E i \in durable : Loaded /\ ReportCancel(i)
    \/ Persist
    \/ Corrupt
    \/ \E fault \in BOOLEAN : Load(fault)

SpecPersist == Init /\ [][NextPersist]_vars

\* ---------------------------------- apply_compact_result as a function
\* apply_compact_result is a function of the task and of the version it is
\* given: the version holds any of the tables 1..MaxL0 in level 0, in flush
\* order, and the task is an L0 -> L0 task reported as successful whose
\* inputs are tables that were in level 0 when it was picked.  Another task
\* may be in flight on other tables of level 0, and readers hold the version
\* the task is applied to and the one of before the flushes.
L0Universe ==
    [i \in 1..MaxL0 |->
        [id |-> i, key_range |-> KeyRange_of((i - 1) % (MaxKey + 1))]]

L0Tables(ids) == SelectSeq(L0Universe, LAMBDA t : t.id \in ids)

L0Task(ids) ==
    [NewCompactTask(CompactStatus_new,
                    [select_level |-> [level_idx |-> 0, table_infos |-> L0Tables(ids)],
                     target_level |-> [level_idx |-> 0, table_infos |-> <<>>],
                     split_ranges |-> <<Hull(SeqToSet(L0Tables(ids)))>>],
                    CompactStatus_new.next_compact_task_id)
        EXCEPT !.sorted_output_ssts =
                   <<[id |-> MaxL0 + 2,
                      key_range |-> Hull(SeqToSet(L0Tables(ids)))]>>,
               !.task_status = TRUE]

InitApply ==
    /\ \E l0 \in SUBSET (1..MaxL0) : \E base \in InitialVersions :
          /\ version = [base EXCEPT !.levels[1].table_infos = L0Tables(l0)]
          /\ pinned = {base, version}
    /\ \E ids \in (SUBSET (1..MaxL0)) \ {{}} :
          /\ tasks = <<[task |-> L0Task(ids), phase |-> "success"]>>
          /\ \E busy \in SUBSET ((1..MaxL0) \ ids) :
                IF busy = {}
                THEN /\ level_handlers = CompactStatus_new.level_handlers
                     /\ next_compact_task_id =
                            CompactStatus_new.next_compact_task_id + 1
                ELSE /\ level_handlers =
                            [CompactStatus_new.level_handlers EXCEPT
                                ![1] = add_task(@,
                                    CompactStatus_new.next_compact_task_id + 1,
                                    busy)]
                     /\ next_compact_task_id =
                            CompactStatus_new.next_compact_task_id + 2
    /\ next_sst_id = MaxL0 + 3
    /\ flushed = MaxL0
    /\ last = [op |-> "report", ret |-> "reported",
               task_id |-> CompactStatus_new.next_compact_task_id]
    /\ store = NoRecord
    /\ durable = {}
    /\ held = {}
    /\ restart_len = 0

NextApply ==
    \E i \in DOMAIN tasks : \E watermark \in Watermarks :
        ApplyCompactResult(i, watermark)

SpecApply == InitApply /\ [][NextApply]_vars

\* --------------------------------------------------------------- claims
Levels == DOMAIN level_handlers

\* The task ids under which some level handler holds a reservation.
ReservingTaskIds == UNION {DOMAIN level_handlers[l].reserved : l \in Levels}

\* The task the last report was about: the one handed out under that id, or
\* the stray task.
ReportedTask ==
    IF \E i \in DOMAIN tasks : tasks[i].task.task_id = last.task_id
    THEN tasks[CHOOSE i \in DOMAIN tasks : tasks[i].task.task_id = last.task_id].task
    ELSE StrayTask

\* C1: no table id is reserved under two different task ids within a level
\* handler, and any two tasks handed out and not reported since have
\* disjoint input tables.
C1_ReservationMutualExclusion ==
    /\ \A l \in Levels :
         \A t1, t2 \in DOMAIN level_handlers[l].reserved :
            t1 # t2 => level_handlers[l].reserved[t1] \cap
                       level_handlers[l].reserved[t2] = {}
    /\ \A i, j \in DOMAIN tasks :
         (i < j /\ tasks[i].phase = "picked" /\ tasks[j].phase = "picked")
            => InputIds(tasks[i].task) \cap InputIds(tasks[j].task) = {}

\* Two tasks are in flight at once, each holding reservations.
C1_Witness ==
    \E i, j \in DOMAIN tasks :
        /\ i < j
        /\ tasks[i].phase = "picked" /\ tasks[j].phase = "picked"
        /\ tasks[i].task.task_id \in DOMAIN level_handlers[1].reserved
        /\ tasks[j].task.task_id \in DOMAIN level_handlers[1].reserved

\* C2: a table that was an input of a task reported as successful is never
\* an input of a task handed out later.
C2_NoTableConsumedTwice ==
    \A i, j \in DOMAIN tasks :
        (i < j /\ tasks[i].phase \in {"success", "applied"})
            => InputIds(tasks[i].task) \cap InputIds(tasks[j].task) = {}

\* C3: after N calls that returned a task the counter is the initial value
\* plus N, and the ids handed out are strictly increasing in call order.
C3_MonotonicTaskIds ==
    /\ next_compact_task_id = CompactStatus_new.next_compact_task_id + Len(tasks)
    /\ \A i, j \in DOMAIN tasks :
         i < j => tasks[i].task.task_id < tasks[j].task.task_id

\* Two tasks were handed out with a report of the first one in between.
C3_Witness ==
    /\ Len(tasks) >= 2
    /\ tasks[1].phase # "picked"
    /\ tasks[2].task.input_ssts[1].table_infos = tasks[1].task.input_ssts[1].table_infos

\* C4: every task id under which a level handler holds a reservation is
\* strictly less than next_compact_task_id.
C4_ReservedIdsBelowNext ==
    \A t \in ReservingTaskIds : t < next_compact_task_id

\* Both level handlers hold reservations.
C4_Witness ==
    /\ DOMAIN level_handlers[1].reserved # {}
    /\ DOMAIN level_handlers[2].reserved # {}

\* C5: right after get_compact_task returned a task, every input table of
\* the task is pending in the handler of its level under exactly the
\* task's id.
C5_InputsReservedUnderTaskId ==
    (last.op = "get" /\ last.ret = Some) =>
        LET task == tasks[Len(tasks)].task
        IN  /\ task.task_id = last.task_id
            /\ \A i \in DOMAIN task.input_ssts :
                 LET h == level_handlers[task.input_ssts[i].level_idx + 1]
                 IN  \A tbl \in SeqToSet(task.input_ssts[i].table_infos) :
                        /\ task.task_id \in DOMAIN h.reserved
                        /\ \A t \in DOMAIN h.reserved :
                              tbl.id \in h.reserved[t] <=> t = task.task_id

\* A second task was just returned, with inputs in both levels.
C5_Witness ==
    /\ last.op = "get" /\ last.ret = Some
    /\ Len(tasks) >= 2
    /\ Len(tasks[Len(tasks)].task.input_ssts[1].table_infos) >= 2
    /\ tasks[Len(tasks)].task.input_ssts[2].table_infos # <<>>

\* C6 as stated: after report_compact_task(task) no level handler holds a
\* reservation under the task's id, no input table of the task is pending,
\* and the reservations of every other task id are unchanged.
C6_ReportReleasesInputs ==
    [][last'.op = "report" =>
        /\ \A l \in Levels : last'.task_id \notin DOMAIN level_handlers'[l].reserved
        /\ \A i \in DOMAIN ReportedTask'.input_ssts :
             \A tbl \in SeqToSet(ReportedTask'.input_ssts[i].table_infos) :
                ~is_pending(level_handlers'[ReportedTask'.input_ssts[i].level_idx + 1],
                            tbl.id)
        /\ \A l \in Levels :
             \A t \in (DOMAIN level_handlers[l].reserved
                         \cup DOMAIN level_handlers'[l].reserved) \ {last'.task_id} :
                /\ t \in DOMAIN level_handlers[l].reserved
                /\ t \in DOMAIN level_handlers'[l].reserved
                /\ level_handlers'[l].reserved[t] = level_handlers[l].reserved[t]
    ]_vars

\* C6 (amended): after report_compact_task(task) no level handler holds a
\* reservation under the task's id, and the reservations of every other task
\* id are unchanged; the input tables of the task are no longer pending when
\* this is the first report of the task (a redelivered report leaves pending
\* the tables that a later task has picked since).
C6_ReportReleasesTaskId ==
    [][last'.op = "report" =>
        /\ \A l \in Levels : last'.task_id \notin DOMAIN level_handlers'[l].reserved
        /\ last'.ret = "reported" =>
             \A i \in DOMAIN ReportedTask'.input_ssts :
                \A tbl \in SeqToSet(ReportedTask'.input_ssts[i].table_infos) :
                   ~is_pending(level_handlers'[ReportedTask'.input_ssts[i].level_idx + 1],
                               tbl.id)
        /\ \A l \in Levels :
             \A t \in (DOMAIN level_handlers[l].reserved
                         \cup DOMAIN level_handlers'[l].reserved) \ {last'.task_id} :
                /\ t \in DOMAIN level_handlers[l].reserved
                /\ t \in DOMAIN level_handlers'[l].reserved
                /\ level_handlers'[l].reserved[t] = level_handlers[l].reserved[t]
    ]_vars

\* A task with inputs in both levels was reported for the first time while
\* another task keeps its reservations.
C6_Witness ==
    /\ last.op = "report" /\ last.ret = "reported"
    /\ ReportedTask.input_ssts[2].level_idx = 1
    /\ ReportedTask.input_ssts[2].table_infos # <<>>
    /\ ReservingTaskIds # {}

\* C7: a report of a task that was reported before, or under whose id
\* nothing is reserved, leaves the level handlers and next_compact_task_id
\* as they were.
C7_ReportIdempotent ==
    [][(/\ last'.op = "report"
        /\ \/ last'.ret \in {"redelivered", "stray"}
           \/ last'.task_id \notin ReservingTaskIds)
        => UNCHANGED <<level_handlers, next_compact_task_id>>]_vars

\* A report was redelivered while a later task holds the tables the reported
\* task had as inputs.
C7_Witness ==
    /\ last.op = "report" /\ last.ret = "redelivered"
    /\ \E tbl \in InputTables(ReportedTask) : is_pending(level_handlers[1], tbl.id)

\* C8: when get_compact_task returns None, next_compact_task_id and the
\* reservations of every level handler are unchanged.
C8_NoneLeavesStatusUnchanged ==
    [][(last'.op = "get" /\ last'.ret = None)
        => UNCHANGED <<level_handlers, next_compact_task_id>>]_vars

\* get_compact_task returned None while tasks are in flight.
C8_Witness ==
    /\ last.op = "get" /\ last.ret = None
    /\ ReservingTaskIds # {}

\* C9: get_compact_task returns None when every L0 table of the given levels
\* is reserved; in particular on a fresh status with empty levels.
C9_NoneWhenNothingEligible ==
    [][(/\ last'.op = "get"
        /\ \A tbl \in SeqToSet(version.levels[1].table_infos) :
              is_pending(level_handlers[1], tbl.id))
        => last'.ret = None]_vars

\* get_compact_task returned None on levels whose L0 tables, more than one,
\* are all reserved.
C9_Witness ==
    /\ last.op = "get" /\ last.ret = None
    /\ Len(version.levels[1].table_infos) >= 2
    /\ \A tbl \in SeqToSet(version.levels[1].table_infos) :
          is_pending(level_handlers[1], tbl.id)

\* Sorted by key range and pairwise non-overlapping.
SortedRun(table_infos) ==
    \A i, j \in DOMAIN table_infos :
        i < j => /\ KeyRange_cmp(table_infos[i].key_range,
                                 table_infos[j].key_range) <= 0
                 /\ ~overlaps(table_infos[i].key_range, table_infos[j].key_range)

\* C10: every level with level_idx >= 1 of every version reached is sorted by
\* key range and its tables are pairwise non-overlapping.
C10_VersionInvariant ==
    \A l \in DOMAIN version.levels :
        version.levels[l].level_idx >= 1 => SortedRun(version.levels[l].table_infos)

\* The task the last apply was about, with the watermark it was applied with.
AppliedTask ==
    [tasks[CHOOSE i \in DOMAIN tasks : tasks[i].task.task_id = last.task_id].task
        EXCEPT !.watermark = last.watermark]

\* C11: apply_compact_result sets safe_epoch to the larger of the prior
\* safe_epoch and the watermark of the task, and safe_epoch never decreases
\* from one version to the next.
C11_SafeEpochMonotonic ==
    [][/\ version'.safe_epoch >= version.safe_epoch
       /\ last'.op = "apply" =>
             /\ version'.safe_epoch >= AppliedTask'.watermark
             /\ version'.safe_epoch \in {version.safe_epoch, AppliedTask'.watermark}
    ]_vars

\* A task was applied whose watermark is below the safe_epoch of the version
\* it was applied to.
C11_Witness ==
    /\ last.op = "apply"
    /\ AppliedTask.watermark < version.safe_epoch

\* The table_infos without the tables whose id is in ids, in their order.
Without(table_infos, ids) == SelectSeq(table_infos, LAMBDA t : t.id \notin ids)

\* The position of the first table of table_infos whose id is in ids
\* (Len(table_infos) + 1 when there is none).
FirstOf(table_infos, ids) ==
    MinOf({i \in DOMAIN table_infos : table_infos[i].id \in ids}
              \cup {Len(table_infos) + 1})

\* C12: applying a task with target_level 0 yields an L0 list that keeps
\* every table that is not an input in its original relative order, holds no
\* input table, and has sorted_output_ssts spliced in once, contiguously, at
\* the position of the first removed input table; the levels >= 1 are
\* unchanged.
C12_L0SpliceInPlace ==
    [][(last'.op = "apply" /\ AppliedTask'.target_level = 0) =>
        LET old   == version.levels[1].table_infos
            stale == InputIds(AppliedTask')
            first == FirstOf(old, stale)
        IN  /\ version'.levels[1].table_infos =
                   Without(SubSeq(old, 1, first - 1), stale)
                   \o AppliedTask'.sorted_output_ssts
                   \o Without(SubSeq(old, first + 1, Len(old)), stale)
            /\ \A l \in DOMAIN version.levels :
                  l > 1 => version'.levels[l] = version.levels[l]
    ]_vars

\* The ids of the tables of a list.
Ids(table_infos) == {t.id : t \in SeqToSet(table_infos)}

\* C13: applying a task with target_level # 0 removes from the level at each
\* position i exactly the tables whose id matches an input table of that
\* position, keeps every other table of every level, and adds every table of
\* sorted_output_ssts to the target level.  End to end: with L0 = [1, 2]
\* overlapping and L1 = [], the task picked has inputs L0 {1, 2}, L1 {} and
\* target_level 1, and after it is reported with output {3} and applied,
\* L0 = [] and L1 = [3].
C13_LevelNApply ==
    [][/\ (last'.op = "apply" /\ AppliedTask'.target_level # 0) =>
            \A l \in DOMAIN version.levels :
               LET old  == version.levels[l].table_infos
                   new  == version'.levels[l].table_infos
                   gone == IF l \in DOMAIN AppliedTask'.input_ssts
                           THEN Ids(AppliedTask'.input_ssts[l].table_infos)
                           ELSE {}
                   kept == Without(old, gone)
                   out  == AppliedTask'.sorted_output_ssts
               IN  IF l = AppliedTask'.target_level + 1
                   THEN /\ SeqToSet(new) = SeqToSet(kept) \cup SeqToSet(out)
                        /\ Len(new) = Len(kept) + Len(out)
                   ELSE new = kept
       /\ (/\ last'.op = "get"
           /\ Len(tasks) = 0
           /\ Ids(version.levels[1].table_infos) = {1, 2}
           /\ overlaps(version.levels[1].table_infos[1].key_range,
                       version.levels[1].table_infos[2].key_range)
           /\ version.levels[2].table_infos = <<>>) =>
              /\ last'.ret = Some
              /\ Ids(tasks'[1].task.input_ssts[1].table_infos) = {1, 2}
              /\ tasks'[1].task.input_ssts[2] = [level_idx |-> 1, table_infos |-> <<>>]
              /\ tasks'[1].task.target_level = 1
       /\ (/\ last'.op = "apply"
           /\ Ids(version.levels[1].table_infos) = {1, 2}
           /\ version.levels[2].table_infos = <<>>
           /\ Ids(AppliedTask'.input_ssts[1].table_infos) = {1, 2}
           /\ AppliedTask'.target_level = 1
           /\ Ids(AppliedTask'.sorted_output_ssts) = {3}) =>
              /\ version'.levels[1].table_infos = <<>>
              /\ version'.levels[2].table_infos = AppliedTask'.sorted_output_ssts
    ]_vars

\* The task picked on L0 = [1, 2], L1 = [] was reported with output {3} and
\* applied: L0 is empty and L1 holds table 3.
C13_Witness ==
    /\ last.op = "apply"
    /\ Ids(AppliedTask.input_ssts[1].table_infos) = {1, 2}
    /\ AppliedTask.target_level = 1
    /\ version.levels[1].table_infos = <<>>
    /\ Ids(version.levels[2].table_infos) = {3}

\* A set of tables is connected under overlap: however it is split in two,
\* a table of one part overlaps a table of the other.
Connected(tables) ==
    \A part \in (SUBSET tables) \ {{}, tables} :
        \E a \in part : \E b \in tables \ part : overlaps(a.key_range, b.key_range)

\* C14: the L0 tables selected into one task form a connected group under the
\* overlap relation: tables that neither overlap nor are chained through
\* other selected tables are never in one task.
C14_SelectedGroupConnected ==
    \A i \in DOMAIN tasks :
        /\ tasks[i].task.input_ssts[1].level_idx = 0
        /\ tasks[i].task.input_ssts[1].table_infos # <<>>
        /\ Connected(SeqToSet(tasks[i].task.input_ssts[1].table_infos))

\* A task was just returned with two or more L0 tables while level 0 holds
\* another table, reserved by no task, that the task left out.
C14_Witness ==
    /\ last.op = "get" /\ last.ret = Some
    /\ Len(tasks[Len(tasks)].task.input_ssts[1].table_infos) >= 2
    /\ \E t \in SeqToSet(version.levels[1].table_infos) :
          /\ ~is_pending(level_handlers[1], t.id)
          /\ t \notin SeqToSet(tasks[Len(tasks)].task.input_ssts[1].table_infos)

\* C15: persisting and reloading a CompactStatus loses nothing: what
\* CompactStatus::get decodes from the record that upsert_in_transaction
\* wrote equals the status persisted, level handlers and
\* next_compact_task_id, and the status in memory after a load is the one
\* the record holds.
C15_PersistReloadRoundTrip ==
    [][/\ last'.op = "persist" =>
             CompactStatus_get(store', FALSE) = [ret |-> Some, status |-> Status]
       /\ (last'.op = "load" /\ last'.ret = Some) =>
             /\ CompactStatus_get(store, FALSE).status = Status'
             /\ store' = upsert_in_transaction(Status')
    ]_vars

\* A status with reservations in both levels and two tasks handed out was
\* loaded from the store.
C15_Witness ==
    /\ last.op = "load" /\ last.ret = Some
    /\ next_compact_task_id >= 3
    /\ DOMAIN level_handlers[1].reserved # {}
    /\ DOMAIN level_handlers[2].reserved # {}

\* C16: once a status is persisted after a get_compact_task that returned a
\* task, and the process restarts and loads it, every task id handed out
\* after the restart is greater than the id of every task whose pick was
\* persisted before, and right after the load the input tables of the tasks
\* persisted in flight are reserved under their ids.
C16_NoIdReuseAcrossRestart ==
    /\ \A i \in durable : \A j \in DOMAIN tasks :
          (i <= restart_len /\ j > restart_len)
             => tasks[i].task.task_id < tasks[j].task.task_id
    /\ (last.op = "load" /\ last.ret = Some) =>
          \A i \in held :
             \A k \in DOMAIN tasks[i].task.input_ssts :
                LET h == level_handlers[tasks[i].task.input_ssts[k].level_idx + 1]
                IN  \A tbl \in SeqToSet(tasks[i].task.input_ssts[k].table_infos) :
                       /\ tasks[i].task.task_id \in DOMAIN h.reserved
                       /\ tbl.id \in h.reserved[tasks[i].task.task_id]

\* A task was handed out after a restart while a task persisted in flight
\* before the restart still holds its tables.
C16_Witness ==
    /\ last.op = "get" /\ last.ret = Some
    /\ restart_len >= 1
    /\ Len(tasks) > restart_len
    /\ \E i \in held :
          /\ i <= restart_len
          /\ tasks[i].task.task_id \in DOMAIN level_handlers[1].reserved

\* C17: when the store has no record under the status key, loading yields no
\* status and no error, and the status used instead is a new one: two level
\* handlers without reservations and next_compact_task_id 1.  Every other
\* store error is returned as an error.
C17_NotFoundFallsBackToNew ==
    [][/\ (last'.op = "load" /\ ~store.present) =>
             /\ last'.ret = None
             /\ level_handlers' = <<[level_idx |-> 0, reserved |-> <<>>],
                                    [level_idx |-> 1, reserved |-> <<>>]>>
             /\ next_compact_task_id' = 1
       /\ last'.op = "load_fault" =>
             /\ last'.ret = "Err"
             /\ ~Loaded'
    ]_vars

\* A process that had handed out a task without persisting restarted on an
\* empty store and runs on a new status.
C17_Witness ==
    /\ last.op = "load" /\ last.ret = None
    /\ Len(tasks) >= 1
    /\ next_compact_task_id = 1

\* C18: a persisted record that fails to decode is never replaced by a
\* default or new CompactStatus: the load ends in a hard error (the panic of
\* the unwrap, or the error of the store) and no CompactStatus is produced.
C18_DecodeFailureIsFatal ==
    [][(/\ last'.op \in {"load", "load_fault"}
        /\ store.present
        /\ \E i \in DOMAIN store.bytes : store.bytes[i][1] = 0) =>
             /\ last'.ret \in {"panic", "Err"}
             /\ last'.op = "load" => last'.ret = "panic"
             /\ level_handlers' = <<>>
    ]_vars

\* A record that held persisted picks was damaged and the load of it ended
\* in the panic.
C18_Witness ==
    /\ last.op = "load" /\ last.ret = "panic"
    /\ durable # {}
    /\ ~Loaded

\* C19: for every task returned by get_compact_task, every L0 table of the
\* given levels that overlaps a selected L0 input table is itself among the
\* L0 inputs of the task, whether another task has reserved it or not.
C19_OverlappingL0MergedAtomically ==
    (last.op = "get" /\ last.ret = Some) =>
        LET selected == SeqToSet(tasks[Len(tasks)].task.input_ssts[1].table_infos)
        IN  \A t \in SeqToSet(version.levels[1].table_infos) :
               (\E sel \in selected : overlaps(t.key_range, sel.key_range))
                  => t \in selected

\* C20: get_compact_task followed by report_compact_task of the returned
\* task, with no apply_compact_result, restores the reservations of every
\* level handler to what they were before the pick and changes no version;
\* only next_compact_task_id differs, advanced by one, and a following
\* get_compact_task on the same levels returns a task with the same inputs
\* under a larger task id.
C20_CancelRestoresPickability ==
    [][/\ (last'.op = "get" /\ last'.ret = Some) =>
             LET task == tasks'[Len(tasks')].task
                 back == report_compact_task(Status', task)
                 next == get_compact_task(back, version'.levels)
             IN  /\ back.level_handlers = level_handlers
                 /\ back.next_compact_task_id = next_compact_task_id + 1
                 /\ next.ret = Some
                 /\ next.task.input_ssts = task.input_ssts
                 /\ next.task.task_id > task.task_id
       /\ (/\ last.op = "get" /\ last.ret = Some
           /\ last'.op = "report" /\ last'.ret = "reported"
           /\ last'.task_id = last.task_id) =>
             LET next == get_compact_task(Status', version'.levels)
             IN  /\ version' = version
                 /\ next_compact_task_id' = next_compact_task_id
                 /\ level_handlers' =
                        report_compact_task(Status, tasks[Len(tasks)].task).level_handlers
                 /\ next.ret = Some
                 /\ next.task.input_ssts = tasks[Len(tasks)].task.input_ssts
                 /\ next.task.task_id > last.task_id
    ]_vars

\* A task with inputs in both levels was cancelled and the get that followed
\* returned the same inputs under a larger id.
C20_Witness ==
    /\ last.op = "get" /\ last.ret = Some
    /\ Len(tasks) >= 2
    /\ tasks[Len(tasks) - 1].phase = "cancel"
    /\ tasks[Len(tasks)].task.input_ssts = tasks[Len(tasks) - 1].task.input_ssts
    /\ tasks[Len(tasks)].task.input_ssts[2].table_infos # <<>>
    /\ tasks[Len(tasks)].task.task_id > tasks[Len(tasks) - 1].task.task_id

\* C21: in every task returned by get_compact_task the flag
\* is_target_ultimate_and_leveling is true exactly when the target level is
\* the last level of the status (target_level = number of level handlers - 1)
\* and the select level is not L0.
C21_UltimateLevelingFlag ==
    \A i \in DOMAIN tasks :
        tasks[i].task.is_target_ultimate_and_leveling
            <=> (/\ tasks[i].task.target_level = Len(level_handlers) - 1
                 /\ tasks[i].task.input_ssts[1].level_idx > 0)

\* Tasks were returned to the last level and to level 0; the select level of
\* both is L0.
C21_Witness ==
    /\ \E i \in DOMAIN tasks : tasks[i].task.target_level = Len(level_handlers) - 1
    /\ \E i \in DOMAIN tasks : tasks[i].task.target_level = 0
    /\ \A i \in DOMAIN tasks : tasks[i].task.input_ssts[1].level_idx = 0

\* C22: apply_compact_result changes neither the reservations nor
\* next_compact_task_id of the status, and it alters no version published
\* before: the version it yields is a new value, and the versions that
\* readers hold, the one it was applied to included, stay as they were.
C22_ApplyLeavesSharedStateAlone ==
    [][last'.op = "apply" =>
          /\ UNCHANGED <<level_handlers, next_compact_task_id>>
          /\ pinned' = pinned
          /\ version \in pinned'
          /\ version' = apply_compact_result(AppliedTask', version)
    ]_vars

\* A task was applied while another task holds reservations and readers
\* hold two older versions; the version it yielded is none of them.
C22_Witness ==
    /\ last.op = "apply"
    /\ ReservingTaskIds # {}
    /\ Cardinality(pinned) = 2
    /\ version \notin pinned

\* C23: every task returned by get_compact_task has L0 as its source:
\* input_ssts has exactly the two entries [select level, target level], with
\* input_ssts[0].level_idx = 0 and target_level 0 or 1; so the assertion of
\* apply_compact_result on input_ssts[0].level_idx holds for every such task
\* with target_level 0.
C23_TasksSelectFromL0 ==
    \A i \in DOMAIN tasks :
        /\ Len(tasks[i].task.input_ssts) = 2
        /\ tasks[i].task.input_ssts[1].level_idx = 0
        /\ tasks[i].task.target_level \in {0, 1}
        /\ ApplyAssertion(tasks[i].task)

\* A task with target_level 0 passed the assertion and was applied, and a
\* task to level 1 was handed out as well.
C23_Witness ==
    /\ last.op = "apply"
    /\ AppliedTask.target_level = 0
    /\ \E i \in DOMAIN tasks : tasks[i].task.target_level = 1

====
